---- MODULE Spec2Model ----
(***************************************************************************)
(* Model of k-means-101/K-means-Clustering.ipynb: guess_clusters,          *)
(* centroid, select_members, distance, get_centroids, reassign (the second *)
(* definition, with the score), k_means and the sweep over trial_ks.       *)
(*                                                                         *)
(* Arithmetic.  The notebook computes with floats.  The model computes     *)
(* with exact rationals held as integers: coordinates, centroids and       *)
(* distances are in units of 1/Unit, scores in units of 1/ScoreUnit,       *)
(* where Unit = MaxN! so that every division by a subset size or by n is   *)
(* exact.  The data sets of the model have one column, so the square root  *)
(* of distance is always taken of a perfect square.  Rounding noise of the *)
(* floats is outside the model.                                            *)
(*                                                                         *)
(* The iteration order of set(membership), which becomes the order of the  *)
(* centroid dict, depends on string hashing: it is a nondeterministic      *)
(* choice, made anew at every get_centroids.                               *)
(***************************************************************************)
EXTENDS Integers, Sequences, FiniteSets, TLC

\* ---------------------------------------------------------------- bounds
MaxN == 5          \* most points in a data set
MaxVal == 2        \* coordinates are 0..MaxVal
MaxK == 9          \* largest k a run is called with
MaxGuesses == 64   \* a run is explored when k^n, the number of guesses, is at most this
MaxTrialK == 3     \* the sweep runs k = 1..MaxTrialK
MaxIter == 8       \* the iteration counter saturates here

\* ------------------------------------------------------- program constants
co == <<"red", "orange", "yellow", "green", "purple", "blue", "black", "brown">>

\* sys.maxsize: stands above every distance and score of the model
maxsize == 2147483647

None == "None"

\* ------------------------------------------------------------------ state
VARIABLES
    data,        \* the point set, a list of columns
    k,           \* the number of clusters asked for
    membership,  \* k_means: membership
    c,           \* k_means: c, the centroid dict, as the list of its items in order
    score,       \* k_means: score
    last_score,  \* k_means: last_score
    pc,          \* where k_means is: guess, while, reassign, done, crash; swept
    iters,       \* passes of the loop body completed (saturates at MaxIter)
    calls,       \* the calls of centroid made by the last get_centroids
    error,       \* the exception that ended the run, or None
    err          \* the sweep's list err

vars == <<data, k, membership, c, score, last_score, pc, iters, calls, error, err>>

\* ---------------------------------------------------------------- helpers
RECURSIVE Factorial(_)
Factorial(m) == IF m <= 1 THEN 1 ELSE m * Factorial(m - 1)

Unit == Factorial(MaxN)
ScoreUnit == Unit * Unit

RECURSIVE Pow(_, _)
Pow(b, e) == IF e = 0 THEN 1 ELSE b * Pow(b, e - 1)

Abs(v) == IF v < 0 THEN 0 - v ELSE v

RECURSIVE SumSeq(_)
SumSeq(s) == IF s = <<>> THEN 0 ELSE Head(s) + SumSeq(Tail(s))

Range(s) == {s[i] : i \in DOMAIN s}

Perms(S) == {s \in [1..Cardinality(S) -> S] :
               \A i, j \in 1..Cardinality(S) : i # j => s[i] # s[j]}

\* TLC hands operator arguments on unevaluated; Bind evaluates e once and
\* hands its value to F, which keeps the loops below linear
Bind(e, F(_)) == CHOOSE r \in {F(v) : v \in {e}} : TRUE

\* math.sqrt of v, known to lie in lo..hi, by bisection: exact on a perfect
\* square, the floor otherwise
RECURSIVE SqrtIter(_, _, _)
SqrtIter(v, lo, hi) ==
    IF lo >= hi THEN lo
    ELSE Bind((lo + hi + 1) \div 2,
              LAMBDA mid : IF mid * mid <= v THEN SqrtIter(v, mid, hi)
                                             ELSE SqrtIter(v, lo, mid - 1))

\* ------------------------------------------------------------- the inputs
\* x is a list of columns, one per dimension; x[1] is Python's x[0]
NPoints(x) == Len(x[1])

Columns == UNION {{s \in [1..m -> 0..MaxVal] : \A i \in 1..(m - 1) : s[i] <= s[i + 1]} :
                  m \in 1..MaxN}

DataSets == {<<col>> : col \in Columns}

\* --------------------------------------------------------- guess_clusters
\* faulty variant: range(n_clusters + 1)
GuessIndices_OffByOne(n_clusters) == 0..n_clusters

\* range(n_clusters), what random.choice draws from
GuessIndices(n_clusters) == 0..(n_clusters - 1)

\* faulty variant: no random draw, point i gets label i mod n_clusters
Guesses_RoundRobin(x, n_clusters) == {[i \in 1..NPoints(x) |-> (i - 1) % n_clusters]}

\* the index lists the comprehension of guess_clusters can draw, one index per point
Guesses(x, n_clusters) == [1..NPoints(x) -> GuessIndices(n_clusters)]

\* ------------------------------------------------- centroid, select_members
\* what centroid yields when float(len(x[0])) is 0: ZeroDivisionError is raised
Raised == <<>>

Firsts(col) == [i \in 1..Len(col) |-> col[i][1]]

\* [[i for i,label in zip(dim, membership) if label == cluster] for dim in x]
select_members(x, memb, cluster) ==
    [d \in 1..Len(x) |->
        Firsts(SelectSeq([i \in 1..Len(memb) |-> <<x[d][i], memb[i]>>],
                         LAMBDA pr : pr[2] = cluster))]

\* faulty variant: the first member, not the mean
centroid_FirstMember(x) ==
    IF Len(x[1]) = 0 THEN Raised
    ELSE [d \in 1..Len(x) |-> x[d][1] * Unit]

centroid(x) ==
    IF Len(x[1]) = 0 THEN Raised
    ELSE [d \in 1..Len(x) |-> (SumSeq(x[d]) * Unit) \div Len(x[1])]

\* ---------------------------------------------------------------- distance
RECURSIVE MaxSeq(_)
MaxSeq(s) == IF Len(s) = 1 THEN s[1]
             ELSE Bind(MaxSeq(Tail(s)), LAMBDA m : IF s[1] > m THEN s[1] ELSE m)

\* math.sqrt(sum([(i[0]-j[0])**2 for i,j in zip(p1, p2)])); the root of a sum
\* of squares lies between the largest term's root and the sum of the roots
distance(p1, p2) ==
    Bind([d \in 1..Len(p1) |-> Abs(p1[d] - p2[d])],
         LAMBDA diffs : SqrtIter(SumSeq([d \in 1..Len(diffs) |-> diffs[d] * diffs[d]]),
                                 MaxSeq(diffs), SumSeq(diffs)))

\* the point [[t[idx]] for t in x]
Point(x, idx) == [d \in 1..Len(x) |-> x[d][idx] * Unit]

\* ----------------------------------------------------------- get_centroids
\* faulty variant: one call per label of co[:k], as in the cell that builds cent_2
CentroidArgs_FirstK(x, memb, order) ==
    [i \in 1..(IF k < Len(co) THEN k ELSE Len(co)) |->
        [label |-> co[i], subset |-> select_members(x, memb, co[i])]]

\* the calls of centroid that the comprehension makes: one per i in
\* set(membership), whose iteration order is order
CentroidArgs(x, memb, order) ==
    [i \in 1..Len(order) |->
        [label |-> order[i], subset |-> select_members(x, memb, order[i])]]

\* faulty variant: a label of co[:k] without points is given the first point as centroid
get_centroids_Reseed(x, memb, order) ==
    LET args == CentroidArgs(x, memb, order)
        lost == SelectSeq(SubSeq(co, 1, IF k < Len(co) THEN k ELSE Len(co)),
                          LAMBDA l : l \notin Range(memb))
    IN [i \in 1..Len(args) |-> [label |-> args[i].label, vc |-> centroid(args[i].subset)]]
       \o [i \in 1..Len(lost) |-> [label |-> lost[i], vc |-> Point(x, 1)]]

get_centroids(x, memb, order) ==
    LET args == CentroidArgs(x, memb, order)
    IN [i \in 1..Len(args) |-> [label |-> args[i].label, vc |-> centroid(args[i].subset)]]

\* what is recorded of the calls: the label and the size of the subset passed
CentroidCalls(x, memb, order) ==
    LET args == CentroidArgs(x, memb, order)
    IN [i \in 1..Len(args) |-> [label |-> args[i].label, size |-> Len(args[i].subset[1])]]

\* ---------------------------------------------------------------- reassign
\* faulty variant: a later centroid at equal distance replaces the choice
Closer_OrEqual(dist, min_d) == dist <= min_d

\* if dist < min_d
Closer(dist, min_d) == dist < min_d

\* one pass of the inner loop, for the dict entry (label, vc)
NearestStep(pt, entry, best) ==
    Bind(distance(entry.vc, pt),
         LAMBDA dist : IF Closer(dist, best.min_d)
                       THEN [min_d |-> dist, cluster |-> entry.label]
                       ELSE best)

RECURSIVE Nearest(_, _, _, _)
\* the inner loop over centroids.items(), from entry j on
Nearest(pt, centroids, j, best) ==
    IF j > Len(centroids) THEN best
    ELSE Bind(NearestStep(pt, centroids[j], best),
              LAMBDA best2 : Nearest(pt, centroids, j + 1, best2))

ScoresGet(scores, cluster) == IF cluster \in DOMAIN scores THEN scores[cluster] ELSE 0

\* sum(scores.values()); the keys of scores are labels of co, or None
SumValues(scores) ==
    SumSeq([i \in 1..Len(co) |-> ScoresGet(scores, co[i])]) + ScoresGet(scores, None)

\* faulty variant: the raw sum, not divided by n
Total_RawSum(x, scores) == SumValues(scores) * Unit

\* sum(scores.values())/float(len(x[0]))
Total(x, scores) == (SumValues(scores) * Unit) \div NPoints(x)

\* one pass of the outer loop, for point idx, on the loop state st
ReassignStep(x, centroids, idx, st) ==
    Bind(Bind(Point(x, idx),
              LAMBDA pt : Nearest(pt, centroids, 1, [min_d |-> maxsize, cluster |-> None])),
         LAMBDA best :
            [membership |-> Append(st.membership, best.cluster),
             scores |-> (best.cluster :> (best.min_d + ScoresGet(st.scores, best.cluster)))
                            @@ st.scores])

RECURSIVE ReassignFrom(_, _, _, _)
\* the outer loop over the points, from point idx on
ReassignFrom(x, centroids, idx, st) ==
    IF idx > NPoints(x)
    THEN [membership |-> st.membership, score |-> Total(x, st.scores)]
    ELSE Bind(ReassignStep(x, centroids, idx, st),
              LAMBDA st2 : ReassignFrom(x, centroids, idx + 1, st2))

reassign(x, centroids) ==
    Bind(centroids,
         LAMBDA cs : ReassignFrom(x, cs, 1, [membership |-> <<>>, scores |-> << >>]))

\* ----------------------------------------------------------------- k_means
\* faulty variant: score starts at the sentinel, as last_score does
InitialScore_Sentinel == maxsize

\* score = 0.0
InitialScore == 0

\* 1e-7 in units of 1/ScoreUnit, rounded down: the scores of the model are whole
\* numbers of units, so they exceed 1e-7 exactly when they exceed this
Threshold == ScoreUnit \div 10000000

\* abs(last_score - score) > 1e-7
NotConverged(last, sc) == Abs(last - sc) > Threshold

\* faulty variant: last_score is not updated
NextLastScore_Stale(last, sc) == last

\* last_score = score
NextLastScore(last, sc) == sc

Labelled(g) == [i \in DOMAIN g |-> co[g[i] + 1]]

RECURSIVE RunScores(_, _, _, _)
\* the scores the loop of k_means can return from (membership m, last_score, score)
RunScores(x, m, last, sc) ==
    IF ~NotConverged(last, sc) THEN {sc}
    ELSE UNION {Bind(reassign(x, get_centroids(x, m, order)),
                     LAMBDA r : RunScores(x, r.membership, NextLastScore(last, sc), r.score)) :
                order \in Perms(Range(m))}

\* the scores k_means(x, n_clusters) can return, over every guess and traversal order
Achievable(x, n_clusters) ==
    UNION {RunScores(x, Labelled(g), maxsize, InitialScore) :
           g \in {h \in Guesses(x, n_clusters) : \A i \in DOMAIN h : h[i] < Len(co)}}

Locals == /\ membership = <<>>
          /\ c = <<>>
          /\ score = 0
          /\ last_score = 0
          /\ pc = "guess"
          /\ iters = 0
          /\ calls = <<>>
          /\ error = None

\* a call k_means(data, k)
Init == /\ data \in DataSets
        /\ k \in 1..MaxK
        /\ Pow(k, NPoints(data)) <= MaxGuesses
        /\ Locals
        /\ err = <<>>

\* membership = guess_clusters(data, k); score, last_score = 0.0, sys.maxsize
Guess ==
    /\ pc = "guess"
    /\ \E g \in Guesses(data, k) :
          IF \E i \in DOMAIN g : g[i] >= Len(co)
          THEN /\ pc' = "crash"
               /\ error' = "IndexError"
               /\ UNCHANGED <<membership, score, last_score>>
          ELSE /\ membership' = Labelled(g)
               /\ score' = InitialScore
               /\ last_score' = maxsize
               /\ pc' = "while"
               /\ error' = error
    /\ UNCHANGED <<data, k, c, iters, calls, err>>

\* while test true; last_score = score; c = get_centroids(data, membership)
LoopEnter ==
    /\ pc = "while"
    /\ NotConverged(last_score, score)
    /\ last_score' = NextLastScore(last_score, score)
    /\ \E order \in Perms(Range(membership)) :
          LET cs == get_centroids(data, membership, order)
          IN /\ calls' = CentroidCalls(data, membership, order)
             /\ IF \E i \in DOMAIN cs : cs[i].vc = Raised
                THEN /\ pc' = "crash"
                     /\ error' = "ZeroDivisionError"
                     /\ c' = c
                ELSE /\ pc' = "reassign"
                     /\ error' = error
                     /\ c' = cs
    /\ UNCHANGED <<data, k, membership, score, iters, err>>

\* membership, score = reassign(data, c)
Reassign ==
    /\ pc = "reassign"
    /\ LET r == reassign(data, c)
       IN /\ membership' = r.membership
          /\ score' = r.score
    /\ iters' = IF iters < MaxIter THEN iters + 1 ELSE iters
    /\ pc' = "while"
    /\ UNCHANGED <<data, k, c, last_score, calls, error, err>>

\* while test false; return membership, c, score
LoopExit ==
    /\ pc = "while"
    /\ ~NotConverged(last_score, score)
    /\ pc' = "done"
    /\ UNCHANGED <<data, k, membership, c, score, last_score, iters, calls, error, err>>

Next == Guess \/ LoopEnter \/ Reassign \/ LoopExit

Spec == Init /\ [][Next]_vars

\* the loop runs to its end: nothing suspends k_means
FairSpec == Spec /\ WF_vars(Next)

\* ------------------------------------------------------- the sweep over k
\* err = []; for k in trial_ks: ... with trial_ks = range(1, MaxTrialK + 1)
InitSweep == /\ data \in DataSets
             /\ Pow(MaxTrialK, NPoints(data)) <= MaxGuesses
             /\ k = 1
             /\ Locals
             /\ err = <<>>

\* k_means has returned: err.append(s), its locals are gone, and the loop
\* over trial_ks goes to the next k or ends
SweepNext ==
    /\ pc = "done"
    /\ err' = Append(err, score)
    /\ membership' = <<>>
    /\ c' = <<>>
    /\ score' = 0
    /\ last_score' = 0
    /\ iters' = 0
    /\ calls' = <<>>
    /\ IF k < MaxTrialK
       THEN k' = k + 1 /\ pc' = "guess"
       ELSE k' = k /\ pc' = "swept"
    /\ UNCHANGED <<data, error>>

NextSweep == Next \/ SweepNext

SpecSweep == InitSweep /\ [][NextSweep]_vars

\* ------------------------------------------------------ shared vocabulary
N == NPoints(data)

Keys(cs) == {cs[j].label : j \in DOMAIN cs}

\* the state after a reassign of the run: c is the mapping that reassign used
AfterReassign == pc \in {"while", "done"} /\ iters >= 1

\* distance of point idx to entry j of the mapping c
DistTo(idx, j) == distance(c[j].vc, Point(data, idx))

\* entry of c that holds the label of point idx
EntryOf(idx) == CHOOSE j \in DOMAIN c : c[j].label = membership[idx]

\* sum over the points of the squared distance to the centroid of their label
SSE(x, m, cs) ==
    SumSeq([idx \in 1..Len(m) |->
        LET j == CHOOSE j \in DOMAIN cs : cs[j].label = m[idx]
            d == distance(cs[j].vc, Point(x, idx))
        IN d * d])

\* --------------------------------------------------------------------- C1
\* C1: with n >= 1 points and 1 <= k <= n, whatever the guess and the
\* traversal orders, the while loop of k_means exits and k_means returns.
C1_Terminates == (k <= N) => <>(pc = "done")

C1_Witness == pc = "done" /\ k <= N /\ k >= 2 /\ iters >= 3

\* --------------------------------------------------------------------- C2
\* C2: after reassign every point carries the label of a centroid at minimum
\* distance, and among equidistant centroids the one met first in the
\* traversal of the mapping.
C2_NearestFirst ==
    AfterReassign =>
        \A idx \in 1..N :
            /\ membership[idx] \in Keys(c)
            /\ \A j \in DOMAIN c :
                  /\ DistTo(idx, EntryOf(idx)) <= DistTo(idx, j)
                  /\ DistTo(idx, j) = DistTo(idx, EntryOf(idx)) => EntryOf(idx) <= j

\* a tie was met and resolved
C2_Witness ==
    /\ AfterReassign
    /\ \E idx \in 1..N : \E j \in DOMAIN c :
          /\ j # EntryOf(idx)
          /\ DistTo(idx, j) = DistTo(idx, EntryOf(idx))
          /\ DistTo(idx, j) > 0

C4_Membership ==
    (pc \in {"while", "reassign", "done"} /\ k <= Len(co)) =>
        /\ Len(membership) = N
        /\ \A idx \in 1..N : \E i \in 1..k : membership[idx] = co[i]
        /\ AfterReassign => Range(membership) \subseteq Keys(c)

C4_Witness ==
    /\ AfterReassign /\ k >= 2 /\ k <= Len(co) /\ N >= 2
    /\ Cardinality(Range(membership)) >= 2

\* --------------------------------------------------------------------- C5
\* C5 as claimed: from the second iteration on, the score of an iteration is
\* at most the score of the iteration before.
C5_CostNeverIncreases == (AfterReassign /\ iters >= 2) => score <= last_score

\* C5 as amended: from one step of the loop to the next, the sum of the
\* squared distances of the points to the centroids of their labels never
\* increases, neither when the centroids are recomputed nor when the points
\* are reassigned.
C5_SSENeverIncreases ==
    [][(/\ pc \in {"while", "reassign"}
        /\ pc' \in {"while", "reassign"}
        /\ (pc = "while" => iters >= 1))
          => SSE(data, membership', c') <= SSE(data, membership, c)]_vars

\* the score went up although the squared distances did not
C5_Witness == AfterReassign /\ iters >= 2 /\ score > last_score

C7_NoCrashWhenKExceedsN ==
    k > N => /\ pc # "crash"
             /\ pc = "done" => Cardinality(Range(membership)) < k

\* --------------------------------------------------------------------- C8
\* C8 as claimed: the loop body has run at least twice when k_means returns.
C8_AtLeastTwoIterations == pc = "done" => iters >= 2

\* C8 as amended: the loop body has run at least once when k_means returns,
\* and at least twice unless the first score computed is within the
\* threshold of 0.
C8_TwoUnlessFirstScoreZero ==
    pc = "done" => /\ iters >= 1
                   /\ iters = 1 => score <= Threshold

\* a run that needed its second iteration to see the score repeat
C8_Witness == pc = "done" /\ iters = 2 /\ score > Threshold

\* --------------------------------------------------------------------- C9
\* C9: a mapping has centroids only for labels that have points, a reassign
\* gives no point a label that had no points before it, and the membership
\* never holds more than k distinct labels: a label that lost its points
\* stays out for the rest of the run.
C9_LabelsOnlyShrink ==
    [][/\ (pc = "while" /\ pc' = "reassign") => Keys(c') \subseteq Range(membership)
       /\ (pc = "reassign" /\ pc' = "while") =>
             /\ Range(membership') \subseteq Range(membership)
             /\ Cardinality(Range(membership')) <= k]_vars

\* a label lost its points in the last reassign and the loop went on without it
C9_Witness ==
    /\ pc = "reassign" /\ iters >= 2
    /\ Cardinality(Keys(c)) < k
    /\ \E i \in 1..k : co[i] \notin Keys(c)

\* -------------------------------------------------------------------- C10
\* C10: get_centroids calls centroid once for each label that the membership
\* holds, on the points of that label, of which there is at least one; the
\* division in centroid never raises.
C10_CentroidOnOccupiedOnly ==
    /\ error # "ZeroDivisionError"
    /\ pc = "reassign" =>
          /\ \A i, j \in DOMAIN calls : i # j => calls[i].label # calls[j].label
          /\ {calls[i].label : i \in DOMAIN calls} = Range(membership)
          /\ \A i \in DOMAIN calls :
                /\ calls[i].size >= 1
                /\ calls[i].size =
                      Cardinality({idx \in 1..N : membership[idx] = calls[i].label})

\* centroids were computed while one of the k labels had no points
C10_Witness == pc = "reassign" /\ iters >= 1 /\ Len(calls) >= 2 /\ Len(calls) < k

\* -------------------------------------------------------------------- C11
\* C11: when k_means returns (membership, c, score), the keys of c are exactly
\* the labels that the returned membership holds, and each c[label] is the
\* per-dimension mean of the points that carry the label in the returned
\* membership.
C11_ReturnedCentroidsOfReturnedMembership ==
    pc = "done" =>
        /\ Keys(c) = Range(membership)
        /\ \A j \in DOMAIN c :
              c[j].vc = centroid(select_members(data, membership, c[j].label))

====
